---- MODULE Spec2Model ----
(***************************************************************************)
(* gpx2energy: power and energy requirements of a commute recorded in GPX  *)
(* files.  The model follows calculator/track_physics.py (physics of a     *)
(* point, track aggregates, commute), calculator/track_gpx.py (points of   *)
(* a track, the command line loop) and the standalone                      *)
(* calculator/gpx2energy.py where it differs.                              *)
(*                                                                         *)
(* Python floats are modelled in fixed point, truncating toward zero:      *)
(*   lengths  mm      times  ms       speeds  mm/s    accelerations mm/s^2 *)
(*   forces   mN      powers mW       energies J                           *)
(*   ratios and coefficients in millionths (Unit)                          *)
(* Track points lie on one meridian: lat is the arc length in whole        *)
(* metres from the equator, elevation is in whole metres (the 1 m          *)
(* resolution the source complains about), timestamps in whole ms.         *)
(***************************************************************************)
EXTENDS Integers, Sequences, FiniteSets, TLC

VARIABLES
    variant,     \* which implementation runs: "track_physics", "gpx2energy"
                 \* (calculator/gpx2energy.py) or "tools" (tools/gpx2energy.py)
    files,       \* len(sys.argv[1:]): number of GPX files of the commute
    trkpts,      \* the <trkpt> samples of the file of the current track
    nfree,       \* freely chosen steps of that file so far
    cur,         \* the track the per-track loop is at (1-based)
    pc,          \* "track" | "next" | "commute" | "done" | "aborted", and
                 \* "car" | "constructed" | "profile", "memo", "tracks" | "totals"
    points,      \* Track.points of the track whose stats were last asked
    ids,         \* id(point) of each of these points: its address
    point_vars,  \* what reading each attribute of each of these points yields
    track_vars,  \* what reading each property of that track yields
    printed,     \* the tracks whose stats print_stats has printed
    raised,      \* the exception that ended the run ("" when none)
    commute_printed, \* has print_stats(commute.stats) printed the totals
    form,        \* the properties a Car is built with (server: the form)
    car,         \* vars(car): the instance dict of the Car
    car_vars,    \* what reading each attribute of the car yields
    memo,        \* vars(point) of every point: its fields and what prop stored
    calls,       \* how often the body of each attribute of each point has run
    accesses,    \* the attribute reads made from outside, and what they gave
    tracks,      \* Commute.tracks: the properties and the points of each track
    commute_vars \* what reading each property of the commute yields

vars == <<variant, files, trkpts, nfree, cur, pc, points, ids, point_vars,
          track_vars, printed, raised, commute_printed, form, car, car_vars,
          memo, calls, accesses, tracks, commute_vars>>

\* the state of one run over the files of a commute
run_vars == <<files, trkpts, nfree, cur, points, ids, point_vars, track_vars,
              printed, raised, commute_printed>>

\* the state the run over the files of a commute leaves alone
elsewhere == <<form, car, car_vars, memo, calls, accesses, tracks, commute_vars>>

----------------------------------------------------------------------------
(* Bounds of the model *)

MaxFree == 2       \* freely chosen steps at the start of a track
MaxPoints == 21    \* longest track
MaxTracks == 2     \* files on the command line
MaxProperties == 2 \* entries of the properties a car is built with
MemoPoints == 3    \* points of a track whose attributes are read in any order
MaxAccess == 2     \* attribute reads made from outside

----------------------------------------------------------------------------
(* Fixed-point arithmetic *)

Milli == 10^3
Unit == 10^6

Abs(x) == IF x < 0 THEN -x ELSE x

\* quotient and remainder of a*b by d for naturals, nine bits of b at a
\* time so that no intermediate product overflows 32 bits (d <= 2^21)
RECURSIVE MulDivNat(_, _, _)
MulDivNat(a, b, d) ==
    IF b = 0 THEN [q |-> 0, r |-> 0]
    ELSE LET h == MulDivNat(a, b \div 512, d)
             t == h.r * 512 + (a % d) * (b % 512)
         IN [q |-> h.q * 512 + (a \div d) * (b % 512) + t \div d,
             r |-> t % d]

\* the quotient of a*b by d for naturals with b < 1024000 (d <= 2^21),
\* three digits of b at a time
MulDivSmall(a, b, d) ==
    LET ra == a % d
        u == ra * (b \div 1000)
        h == (u % d) * 1000
        l == ra * (b % 1000)
    IN (a \div d) * b + (u \div d) * 1000
          + (h \div d) + (l \div d) + (((h % d) + (l % d)) \div d)

\* a * b / d for floats, truncated toward zero
MulDiv(a, b, d) ==
    LET x == Abs(a)
        y == Abs(b)
        m == IF y = 0 \/ x <= 2147483647 \div y
             THEN (x * y) \div d
             ELSE IF y < 1024000 THEN MulDivSmall(x, y, d)
             ELSE IF x < 1024000 THEN MulDivSmall(y, x, d)
             ELSE MulDivNat(x, y, d).q
    IN IF (a >= 0) = (b >= 0) THEN m ELSE -m

RECURSIVE SqrtSearch(_, _, _)
SqrtSearch(x, lo, hi) ==
    IF lo = hi THEN lo
    ELSE LET mid == (lo + hi + 1) \div 2
         IN IF mid * mid <= x THEN SqrtSearch(x, mid, hi)
            ELSE SqrtSearch(x, lo, mid - 1)

\* math.sqrt
sqrt(x) == SqrtSearch(x, 0, 46340)

\* the outcome of evaluating an expression: a value, or an exception
Ok(v) == [err |-> "", val |-> v]
Raise(e) == [err |-> e, val |-> 0]

\* Python's "/" on floats: a / b in units of 1/scale
Div(a, scale, b) ==
    IF b = 0 THEN Raise("ZeroDivisionError") ELSE Ok(MulDiv(a, scale, Abs(b)) * (IF b < 0 THEN -1 ELSE 1))

----------------------------------------------------------------------------
(* class Earth *)

\* gravitational acceleration, 9.8105 m/s^2, in mm/s^2 * 10
Earth_g == 98105
\* density of air, 1.2922 kg/m^3, in millionths
Earth_air_density == 1292200

----------------------------------------------------------------------------
(* class Car: the Smart Fortwo defaults *)

Car_cx == 370000                 \* 0.37
Car_frontal_area == 1950000      \* 1.95 m^2
Car_mass == 880                  \* kg
Car_rrc == 13550                 \* 0.01355
Car_power == 40000 * Milli       \* 40000 W
Car_battery_pack_efficiency == 950000
Car_controller_efficiency == 950000
Car_motor_efficiency == 870000
Car_gearbox_efficiency == 900000

\* max speed [m/s] as a fraction of mm/s: 100*1000/3600.0 in track_physics,
\* 100*1000/3600 (integer division, 27) in the standalone gpx2energy
Car_max_speed ==
    IF variant = "track_physics"
    THEN [num |-> 100 * 1000 * Milli, den |-> 3600]
    ELSE [num |-> ((100 * 1000) \div 3600) * Milli, den |-> 1]

Car_cda == MulDiv(Car_cx, Car_frontal_area, Unit)

\* weight [mN] = mass * g
Car_weight == (Car_mass * Earth_g) \div 10

Car_electrical_efficiency ==
    MulDiv(MulDiv(Car_battery_pack_efficiency, Car_controller_efficiency, Unit),
           Car_motor_efficiency, Unit)

Car_mechanical_efficiency == Car_gearbox_efficiency

Car_efficiency == MulDiv(Car_electrical_efficiency, Car_mechanical_efficiency, Unit)

----------------------------------------------------------------------------
(* class Point *)
(* self is vars(point): the fields set by Point.__init__ and the           *)
(* attributes memoized so far; previous is vars(point.previous)            *)

\* Point.previous is None for the first point
HasPrevious(self) == self.index > 0

\* haversine distance of two points of one meridian: radius * |dlat|
flat_distance(self, previous) ==
    IF HasPrevious(self)
    THEN Ok(Abs(self.lat - previous.lat) * Milli)
    ELSE Ok(0)

climb(self, previous) ==
    IF HasPrevious(self)
    THEN Ok((self.elevation - previous.elevation) * Milli)
    ELSE Ok(0)

distance(self, previous) ==
    Ok(sqrt(self.flat_distance.val * self.flat_distance.val
            + self.climb.val * self.climb.val))

\* incline_sine falling back to 0 instead of the previous point's value
incline_sine_reset(self, previous) ==
    LET q == Div(self.climb.val, Unit, self.distance.val)
        sine == IF q.err = "ZeroDivisionError" THEN 1 * Unit ELSE q.val
    IN IF -250000 < sine /\ sine < 250000 THEN Ok(sine) ELSE Ok(0)

\* incline_sine without the plausibility test
incline_sine_raw(self, previous) ==
    LET q == Div(self.climb.val, Unit, self.distance.val)
    IN IF q.err = "ZeroDivisionError" THEN Ok(1 * Unit) ELSE q

incline_sine(self, previous) ==
    LET q == Div(self.climb.val, Unit, self.distance.val)
        sine == IF q.err = "ZeroDivisionError" THEN 1 * Unit ELSE q.val
    IN IF -250000 < sine /\ sine < 250000
       THEN Ok(sine)
       ELSE IF HasPrevious(self) THEN previous.incline_sine ELSE Ok(0)

\* incline_cosine without the except clause
incline_cosine_uncaught(self, previous) ==
    LET q == Div(self.flat_distance.val, Unit, self.distance.val)
    IN IF q.err # "" THEN q
       ELSE IF 750000 < q.val /\ q.val <= 1 * Unit
       THEN q
       ELSE IF HasPrevious(self) THEN previous.incline_cosine ELSE Ok(1 * Unit)

incline_cosine(self, previous) ==
    LET q == Div(self.flat_distance.val, Unit, self.distance.val)
        cosine == IF q.err = "ZeroDivisionError" THEN 0 ELSE q.val
    IN IF 750000 < cosine /\ cosine <= 1 * Unit
       THEN Ok(cosine)
       ELSE IF HasPrevious(self) THEN previous.incline_cosine ELSE Ok(1 * Unit)

\* utils.total_seconds of a timedelta of delta ms, in ms:
\* delta.seconds + delta.days*60*60*24 is the whole seconds,
\* delta.microseconds / 1000.0 adds one second per millisecond
total_seconds(delta) ==
    ((delta \div Milli) + (delta % Milli)) * Milli

\* datetime.timedelta.total_seconds, used by the standalone gpx2energy
timedelta_total_seconds(delta) == delta

period(self, previous) ==
    IF HasPrevious(self)
    THEN IF variant = "track_physics"
         THEN Ok(total_seconds(self.time - previous.time))
         ELSE Ok(timedelta_total_seconds(self.time - previous.time))
    ELSE Ok(1 * Milli)

\* distance / period, the speed before the plausibility test
raw_speed(self) == Div(self.distance.val, Milli, self.period.val)

\* speed without the plausibility test
speed_unchecked(self, previous) == raw_speed(self)

\* speed falling back to 0 instead of the speed of the previous point
speed_reset(self, previous) ==
    LET raw == raw_speed(self)
    IN IF raw.err # "" THEN raw
       ELSE IF 0 <= raw.val /\ raw.val * Car_max_speed.den < Car_max_speed.num
       THEN raw
       ELSE Ok(0)

speed(self, previous) ==
    LET raw == raw_speed(self)
    IN IF raw.err # "" THEN raw
       ELSE IF 0 <= raw.val /\ raw.val * Car_max_speed.den < Car_max_speed.num
       THEN raw
       ELSE IF HasPrevious(self) THEN previous.speed ELSE Ok(0)

\* g/2 in mm/s^2
Earth_g_half == Earth_g \div 20

\* (speed - previous.speed) / period, the acceleration before the test
raw_acceleration(self, previous) ==
    IF HasPrevious(self) /\ HasPrevious(previous)
    THEN IF self.speed.err # "" THEN self.speed
         ELSE IF previous.speed.err # "" THEN previous.speed
         ELSE Div(self.speed.val - previous.speed.val, Milli, self.period.val)
    ELSE Ok(0)

\* acceleration with the test the comment in the source describes
acceleration_symmetric(self, previous) ==
    LET raw == raw_acceleration(self, previous)
    IN IF raw.err # "" THEN raw
       ELSE IF -Earth_g_half < raw.val /\ raw.val < Earth_g_half
       THEN raw
       ELSE IF HasPrevious(self) THEN previous.acceleration ELSE Ok(0)

acceleration(self, previous) ==
    LET raw == raw_acceleration(self, previous)
    IN IF raw.err # "" THEN raw
       ELSE IF Earth_g_half < raw.val /\ raw.val < Earth_g_half
       THEN raw
       ELSE IF HasPrevious(self) THEN previous.acceleration ELSE Ok(0)

\* 0.5 * Earth.air_density * self.car.cda
drag_factor == MulDiv(MulDiv(500000, Earth_air_density, Unit), Car_cda, Unit)

air_drag(self, previous) ==
    IF self.speed.err # "" THEN self.speed
    ELSE Ok(MulDiv(drag_factor, self.speed.val * self.speed.val, Unit) \div Milli)

\* self.car.rrc * self.car.weight
rolling_weight == MulDiv(Car_rrc, Car_weight, Unit)

\* self.car.rrc * self.car.mass * Earth.g
rolling_mass_g == MulDiv(Car_rrc * Car_mass, Earth_g, 10^4) \div Milli

rolling_resistance(self, previous) ==
    IF variant = "track_physics"
    THEN Ok(MulDiv(rolling_weight, self.incline_cosine.val, Unit))
    ELSE Ok(MulDiv(rolling_mass_g, self.incline_cosine.val, Unit))

incline_force(self, previous) ==
    IF variant = "track_physics"
    THEN Ok(MulDiv(Car_weight, self.incline_sine.val, Unit))
    ELSE Ok(MulDiv((Car_mass * Earth_g) \div 10, self.incline_sine.val, Unit))

acceleration_force(self, previous) ==
    IF self.acceleration.err # "" THEN self.acceleration
    ELSE Ok(Car_mass * self.acceleration.val)

force(self, previous) ==
    IF self.air_drag.err # "" THEN self.air_drag
    ELSE IF self.acceleration_force.err # "" THEN self.acceleration_force
    ELSE Ok(self.air_drag.val + self.rolling_resistance.val
            + self.incline_force.val + self.acceleration_force.val)

\* force * speed, the power before the sanity check
raw_power(self) ==
    IF self.force.err # "" THEN self.force
    ELSE IF self.speed.err # "" THEN self.speed
    ELSE Ok(MulDiv(self.force.val, self.speed.val, Milli))

\* power_at_wheels with the assert statement compiled away
power_at_wheels_unchecked(self, previous) == raw_power(self)

power_at_wheels(self, previous) ==
    LET power == raw_power(self)
    IN IF power.err # "" THEN power
       ELSE IF -Car_power * 2 < power.val
               /\ power.val < MulDiv(Car_power, 1200000, Unit)
       THEN power
       ELSE Raise("AssertionError")

\* output_power derived from the force instead of the power
output_power_of_force(self, previous) ==
    LET p == self.power_at_wheels
    IN IF p.err # "" THEN p
       ELSE IF self.force.val > 0
       THEN Ok(MulDiv(self.force.val, Unit, Car_mechanical_efficiency))
       ELSE Ok(0)

output_power(self, previous) ==
    LET p == self.power_at_wheels
    IN IF p.err # "" THEN p
       ELSE IF p.val > 0 THEN Ok(MulDiv(p.val, Unit, Car_mechanical_efficiency))
       ELSE Ok(0)

\* regen_power that forgets to negate the power
regen_power_signed(self, previous) ==
    LET p == self.power_at_wheels
    IN IF p.err # "" THEN p
       ELSE IF p.val > 0 THEN Ok(0)
       ELSE IF variant = "track_physics"
       THEN Ok(MulDiv(p.val, Car_efficiency, Unit))
       ELSE Ok(MulDiv(p.val, Unit, Car_efficiency))

regen_power(self, previous) ==
    LET p == self.power_at_wheels
    IN IF p.err # "" THEN p
       ELSE IF p.val > 0 THEN Ok(0)
       ELSE IF variant = "track_physics"
       THEN Ok(MulDiv(-p.val, Car_efficiency, Unit))
       ELSE Ok(MulDiv(-p.val, Unit, Car_efficiency))

motor_power(self, previous) ==
    LET p == self.power_at_wheels
    IN IF p.err # "" THEN p
       ELSE IF p.val > 0 THEN Ok(MulDiv(p.val, Unit, Car_mechanical_efficiency))
       ELSE Ok(MulDiv(-p.val, Car_mechanical_efficiency, Unit))

energy(self, previous) ==
    LET o == self.output_power
        r == self.regen_power
    IN IF o.err # "" THEN o
       ELSE IF r.err # "" THEN r
       ELSE Ok(MulDiv(MulDiv(o.val, Unit, Car_electrical_efficiency)
                        - MulDiv(r.val, Car_electrical_efficiency, Unit),
                      self.period.val, Unit))

\* the derived attributes, each after the attributes it reads
Attributes ==
    <<"flat_distance", "climb", "distance", "incline_sine", "incline_cosine",
      "period", "speed", "acceleration", "air_drag", "rolling_resistance",
      "incline_force", "acceleration_force", "force", "power_at_wheels",
      "output_power", "regen_power", "motor_power", "energy">>

\* getattr(point, attribute): the value, or the exception
getattr(self, previous, attribute) ==
    CASE attribute = "flat_distance"      -> flat_distance(self, previous)
      [] attribute = "climb"              -> climb(self, previous)
      [] attribute = "distance"           -> distance(self, previous)
      [] attribute = "incline_sine"       -> incline_sine(self, previous)
      [] attribute = "incline_cosine"     -> incline_cosine(self, previous)
      [] attribute = "period"             -> period(self, previous)
      [] attribute = "speed"              -> speed(self, previous)
      [] attribute = "acceleration"       -> acceleration(self, previous)
      [] attribute = "air_drag"           -> air_drag(self, previous)
      [] attribute = "rolling_resistance" -> rolling_resistance(self, previous)
      [] attribute = "incline_force"      -> incline_force(self, previous)
      [] attribute = "acceleration_force" -> acceleration_force(self, previous)
      [] attribute = "force"              -> force(self, previous)
      [] attribute = "power_at_wheels"    -> power_at_wheels(self, previous)
      [] attribute = "output_power"       -> output_power(self, previous)
      [] attribute = "regen_power"        -> regen_power(self, previous)
      [] attribute = "motor_power"        -> motor_power(self, previous)
      [] attribute = "energy"             -> energy(self, previous)

\* vars(point) once every attribute from the k-th on was read: the value
\* prop memoized, or the exception the read raises
RECURSIVE PointVars(_, _, _)
PointVars(self, previous, k) ==
    IF k > Len(Attributes) THEN self
    ELSE PointVars(self @@ (Attributes[k] :> getattr(self, previous, Attributes[k])),
                   previous, k + 1)

----------------------------------------------------------------------------
(* class Track *)

\* sum(getattr(point, attribute) for point in points[from .. to]), 0-based
\* and inclusive; the first exception ends the sum
RECURSIVE Sum(_, _, _, _)
Sum(pv, attribute, from, to) ==
    IF from > to THEN Ok(0)
    ELSE LET v == pv[from + 1][attribute]
             rest == Sum(pv, attribute, from + 1, to)
         IN IF v.err # "" THEN v
            ELSE IF rest.err # "" THEN rest
            ELSE Ok(v.val + rest.val)

\* sliding_window with windows one point short
sliding_window_short(pts, pv, attribute, width) ==
    LET n == Len(pts) - width
        item(i) == [sum    |-> Sum(pv, attribute, i, i + width - 2),
                    len    |-> width - 1,
                    window |-> SubSeq(pts, i + 1, i + width - 1)]
    IN [k \in 1..(IF n > 0 THEN n ELSE 0) |-> item(k - 1)]

\* sliding_window that also yields the window ending at the last point
sliding_window_all(pts, pv, attribute, width) ==
    LET n == Len(pts) - width + 1
        item(i) == [sum    |-> Sum(pv, attribute, i, i + width - 1),
                    len    |-> width,
                    window |-> SubSeq(pts, i + 1, i + width)]
    IN [k \in 1..(IF n > 0 THEN n ELSE 0) |-> item(k - 1)]

\* the windows sliding_window yields, in the order it yields them:
\* (sum(values)/len(values), window) for i in xrange(len(points) - width)
sliding_window(pts, pv, attribute, width) ==
    LET n == Len(pts) - width
        item(i) == [sum    |-> Sum(pv, attribute, i, i + width - 1),
                    len    |-> width,
                    window |-> SubSeq(pts, i + 1, i + width)]
    IN [k \in 1..(IF n > 0 THEN n ELSE 0) |-> item(k - 1)]

\* the first exception raised while the windows are consumed
WindowError(windows) ==
    IF \E k \in DOMAIN windows : windows[k].sum.err # ""
    THEN LET k == CHOOSE j \in DOMAIN windows :
                     /\ windows[j].sum.err # ""
                     /\ \A l \in 1..(j - 1) : windows[l].sum.err = ""
         IN windows[k].sum.err
    ELSE ""

\* a < b for two lists of points: Python 2 orders lists by their first
\* differing elements, and objects without __cmp__ by their address (id)
ListLess(a, b, id) ==
    IF \E k \in 1..Len(a) : k <= Len(b) /\ a[k] # b[k]
    THEN LET k == CHOOSE j \in 1..Len(a) :
                     /\ j <= Len(b) /\ a[j] # b[j]
                     /\ \A l \in 1..(j - 1) : a[l] = b[l]
         IN id[a[k].index + 1] < id[b[k].index + 1]
    ELSE Len(a) < Len(b)

\* a < b for two (mean, window) tuples
TupleLess(a, b, id) ==
    LET x == IF a.len = b.len THEN a.sum.val ELSE a.sum.val * b.len
        y == IF a.len = b.len THEN b.sum.val ELSE b.sum.val * a.len
    IN IF x # y THEN x < y ELSE ListLess(a.window, b.window, id)

\* max(iterable): the first item that no later item exceeds
RECURSIVE MaxFrom(_, _, _, _)
MaxFrom(windows, id, best, k) ==
    IF k > Len(windows) THEN best
    ELSE MaxFrom(windows, id,
                 IF TupleLess(best, windows[k], id) THEN windows[k] ELSE best,
                 k + 1)

max(windows, id) == MaxFrom(windows, id, windows[1], 2)

\* min(iterable): the first item that no later item is below
RECURSIVE MinFrom(_, _, _, _)
MinFrom(windows, id, best, k) ==
    IF k > Len(windows) THEN best
    ELSE MinFrom(windows, id,
                 IF TupleLess(windows[k], best, id) THEN windows[k] ELSE best,
                 k + 1)

min(windows, id) == MinFrom(windows, id, windows[1], 2)

\* peak[0] * mul / div, peak[1][0], peak[1][-1]
PeakTuple(peak, mul, div) ==
    [num   |-> peak.sum.val * mul,
     den   |-> peak.len * div,
     first |-> peak.window[1],
     last  |-> peak.window[Len(peak.window)]]

\* max / min of the windows, as the five peak properties use it
Peak(windows, id, pick_max, mul, div) ==
    IF WindowError(windows) # "" THEN Raise(WindowError(windows))
    ELSE IF Len(windows) = 0 THEN Raise("ValueError")
    ELSE Ok(PeakTuple(IF pick_max THEN max(windows, id) ELSE min(windows, id),
                      mul, div))

\* the default width of sliding_window
DefaultWidth == 20

\* the width top_speed passes
TopSpeedWidth == 15

\* peak[0]*3600/1000 [km/h], as a fraction of mm/s: 18/5
top_speed(pts, pv, id) ==
    Peak(sliding_window(pts, pv, "speed", TopSpeedWidth), id, TRUE, 18, 5)

peak_output_power(pts, pv, id) ==
    Peak(sliding_window(pts, pv, "output_power", DefaultWidth), id, TRUE, 1, 1)

peak_regen_power(pts, pv, id) ==
    Peak(sliding_window(pts, pv, "regen_power", DefaultWidth), id, TRUE, 1, 1)

steepest_incline(pts, pv, id) ==
    Peak(sliding_window(pts, pv, "incline_sine", DefaultWidth), id, TRUE, 100, 1)

steepest_decline(pts, pv, id) ==
    Peak(sliding_window(pts, pv, "incline_sine", DefaultWidth), id, FALSE, -100, 1)

\* duration of the journey in ms (the source divides the seconds by 60.0)
Track_duration(pts) ==
    IF variant = "track_physics"
    THEN total_seconds(pts[Len(pts)].time - pts[1].time)
    ELSE timedelta_total_seconds(pts[Len(pts)].time - pts[1].time)

\* travelled distance in m (km / 1000)
Track_distance(pts, pv) ==
    Ok(Sum(pv, "distance", 0, Len(pts) - 1).val \div Milli)

\* average speed in m/h
Track_average_speed(pts, pv) ==
    Div(Track_distance(pts, pv).val, 3600 * Milli, Track_duration(pts))

\* energy in mWh
Track_energy(pts, pv) ==
    LET e == Sum(pv, "energy", 0, Len(pts) - 1)
    IN IF e.err # "" THEN e ELSE Ok(MulDiv(e.val, Milli, 3600))

\* energy per km in mWh/km
Track_energy_rate(pts, pv) ==
    LET e == Track_energy(pts, pv)
    IN IF e.err # "" THEN e
       ELSE Div(e.val, Milli, Track_distance(pts, pv).val)

\* average motor power in mW
average_motor_power(pts, pv) ==
    LET m == Sum(pv, "motor_power", 0, Len(pts) - 1)
    IN IF m.err # "" THEN m ELSE Div(m.val, 1, Len(pts))

\* every property of the track, as reading it yields it
TrackVars(pts, pv, id) ==
    [distance            |-> Track_distance(pts, pv),
     duration            |-> Ok(Track_duration(pts)),
     average_speed       |-> Track_average_speed(pts, pv),
     energy              |-> Track_energy(pts, pv),
     energy_rate         |-> Track_energy_rate(pts, pv),
     top_speed           |-> top_speed(pts, pv, id),
     average_motor_power |-> average_motor_power(pts, pv),
     peak_output_power   |-> peak_output_power(pts, pv, id),
     peak_regen_power    |-> peak_regen_power(pts, pv, id),
     steepest_incline    |-> steepest_incline(pts, pv, id),
     steepest_decline    |-> steepest_decline(pts, pv, id)]

\* the order in which Track.stats reads the properties
StatsOrder ==
    <<"distance", "duration", "average_speed", "energy", "energy_rate",
      "top_speed", "average_motor_power", "peak_output_power",
      "peak_regen_power", "steepest_incline", "steepest_decline">>

\* the exception building the stats dict raises ("" when it is built)
Track_stats(tv) ==
    IF \E k \in 1..Len(StatsOrder) : tv[StatsOrder[k]].err # ""
    THEN LET k == CHOOSE j \in 1..Len(StatsOrder) :
                     /\ tv[StatsOrder[j]].err # ""
                     /\ \A l \in 1..(j - 1) : tv[StatsOrder[l]].err = ""
         IN tv[StatsOrder[k]].err
    ELSE ""

----------------------------------------------------------------------------
(* The recorded tracks *)

\* what the car does between two samples: metres north, metres up, ms
Steps ==
    {[dlat |-> 0,  dele |-> 0,  dt |-> 1000],    \* standing
     [dlat |-> 20, dele |-> 0,  dt |-> 1000],    \* 72 km/h on the flat
     [dlat |-> 30, dele |-> 8,  dt |-> 1000],    \* a GPS jump: 112 km/h, 26 %
     [dlat |-> 27, dele |-> 6,  dt |-> 1000],    \* fast up a steep hill
     [dlat |-> 20, dele |-> -4, dt |-> 1000],    \* downhill
     [dlat |-> 20, dele |-> 0,  dt |-> 0],       \* two samples, one timestamp
     [dlat |-> 20, dele |-> 0,  dt |-> 1500]}    \* sub-second timestamp

FirstTrkpt == [lat |-> 0, elevation |-> 100, time |-> 0]

Next_trkpt(last, step) ==
    [lat       |-> last.lat + step.dlat,
     elevation |-> last.elevation + step.dele,
     time      |-> last.time + step.dt]

\* track lengths around the two window widths
Lengths ==
    {TopSpeedWidth, TopSpeedWidth + 1, DefaultWidth, MaxPoints}

RECURSIVE Repeat(_, _)
Repeat(pts, len) ==
    IF Len(pts) >= len THEN pts
    ELSE LET last == pts[Len(pts)]
             before == pts[Len(pts) - 1]
             step == [dlat |-> last.lat - before.lat,
                      dele |-> last.elevation - before.elevation,
                      dt   |-> last.time - before.time]
         IN Repeat(Append(pts, Next_trkpt(last, step)), len)

\* Point.__init__
Point(index, trkpt) ==
    [index     |-> index,
     lat       |-> trkpt.lat,
     elevation |-> trkpt.elevation,
     time      |-> trkpt.time]

\* Track.points
Track_points(pts) ==
    [k \in 1..Len(pts) |-> Point(k - 1, pts[k])]

\* the order of the addresses the allocator gives the Point objects
Layouts == {"ascending", "descending"}

\* id(point) of the n points of a track
Ids(n, layout) ==
    [k \in 1..n |-> IF layout = "ascending" THEN k ELSE n - k]

----------------------------------------------------------------------------
(* The run: python track_gpx.py file.gpx [...] *)

Init ==
    /\ variant \in {"track_physics", "gpx2energy"}
    /\ files = MaxTracks
    /\ trkpts = <<FirstTrkpt>>
    /\ nfree = 0
    /\ cur = 1
    /\ pc = "track"
    /\ points = <<>>
    /\ ids = <<>>
    /\ point_vars = <<>>
    /\ track_vars = <<>>
    /\ printed = {}
    /\ raised = ""
    /\ commute_printed = FALSE
    /\ form = <<>>
    /\ car = <<>>
    /\ car_vars = <<>>
    /\ memo = <<>>
    /\ calls = <<>>
    /\ accesses = <<>>
    /\ tracks = <<>>
    /\ commute_vars = <<>>

\* the recording gets one more sample
AppendTrkpt(step) ==
    /\ pc = "track"
    /\ nfree < MaxFree
    /\ Len(trkpts) < MaxPoints
    /\ trkpts' = Append(trkpts, Next_trkpt(trkpts[Len(trkpts)], step))
    /\ nfree' = nfree + 1
    /\ UNCHANGED <<variant, files, cur, pc, points, ids, point_vars,
                   track_vars, printed, raised, commute_printed>>
    /\ UNCHANGED elsewhere

\* the car goes on as in the last step until the recording has len samples,
\* where it ends
RepeatTrkpt(len) ==
    /\ pc = "track"
    /\ Len(trkpts) >= 2
    /\ Len(trkpts) < len
    /\ trkpts' = Repeat(trkpts, len)
    /\ nfree' = MaxFree
    /\ UNCHANGED <<variant, files, cur, pc, points, ids, point_vars,
                   track_vars, printed, raised, commute_printed>>
    /\ UNCHANGED elsewhere

\* vars(point) of the first n points of the track, in index order
RECURSIVE AllPointVars(_, _)
AllPointVars(pts, n) ==
    IF n = 0 THEN <<>>
    ELSE IF n = 1 THEN <<PointVars(pts[1], pts[1], 1)>>
    ELSE LET before == AllPointVars(pts, n - 1)
         IN Append(before, PointVars(pts[n], before[n - 1], 1))

\* a loop that reports the exception of a track and goes on
TrackStats_isolated ==
    /\ pc = "track"
    /\ \E pts \in {Track_points(trkpts)} :
       \E pv \in {AllPointVars(pts, Len(pts))} :
       \E layout \in Layouts :
       \E tv \in {TrackVars(pts, pv, Ids(Len(pts), layout))} :
       \E err \in {Track_stats(tv)} :
          /\ points' = pts
          /\ ids' = Ids(Len(pts), layout)
          /\ point_vars' = pv
          /\ track_vars' = tv
          /\ raised' = err
          /\ printed' = IF err = "" THEN printed \cup {cur} ELSE printed
          /\ pc' = IF cur < files THEN "next" ELSE "commute"
          /\ UNCHANGED <<cur, trkpts, nfree>>
    /\ UNCHANGED <<variant, files, commute_printed>>
    /\ UNCHANGED elsewhere

\* one turn of "for track in commute.tracks: print_stats(track.stats)"
TrackStats ==
    /\ pc = "track"
    /\ \E pts \in {Track_points(trkpts)} :
       \E pv \in {AllPointVars(pts, Len(pts))} :
       \E layout \in Layouts :
       \E tv \in {TrackVars(pts, pv, Ids(Len(pts), layout))} :
       \E err \in {Track_stats(tv)} :
          /\ points' = pts
          /\ ids' = Ids(Len(pts), layout)
          /\ point_vars' = pv
          /\ track_vars' = tv
          /\ raised' = err
          /\ IF err # ""
             THEN /\ pc' = "aborted"
                  /\ UNCHANGED <<cur, printed, trkpts, nfree>>
             ELSE /\ printed' = printed \cup {cur}
                  /\ pc' = IF cur < files THEN "next" ELSE "commute"
                  /\ UNCHANGED <<cur, trkpts, nfree>>
    /\ UNCHANGED <<variant, files, commute_printed>>
    /\ UNCHANGED elsewhere

\* the loop goes on to the next track, whose file is not read yet
NextTrack ==
    /\ pc = "next"
    /\ cur' = cur + 1
    /\ pc' = "track"
    /\ trkpts' = <<FirstTrkpt>>
    /\ nfree' = 0
    /\ points' = <<>>
    /\ ids' = <<>>
    /\ point_vars' = <<>>
    /\ track_vars' = <<>>
    /\ UNCHANGED <<variant, files, printed, raised, commute_printed>>
    /\ UNCHANGED elsewhere

\* print_stats(commute.stats) after the loop
CommuteStats ==
    /\ pc = "commute"
    /\ commute_printed' = TRUE
    /\ pc' = "done"
    /\ UNCHANGED <<variant, files, trkpts, nfree, cur, points, ids,
                   point_vars, track_vars, printed, raised>>
    /\ UNCHANGED elsewhere

Next ==
    \/ \E step \in Steps : AppendTrkpt(step)
    \/ \E len \in Lengths : RepeatTrkpt(len)
    \/ TrackStats
    \/ NextTrack
    \/ CommuteStats

Spec == Init /\ [][Next]_vars

----------------------------------------------------------------------------
(* A car of one's own: Car(properties) of the standalone gpx2energy, and   *)
(* car = Car(); vars(car).update(form) of server.py over track_physics     *)

\* the class attributes a profile overrides
Car_properties ==
    {"cx", "frontal_area", "mass", "power", "max_speed",
     "battery_pack_efficiency", "controller_efficiency",
     "motor_efficiency", "gearbox_efficiency"}

\* the class attribute of that name (max_speed in whole mm/s)
Car_class(name) ==
    CASE name = "cx" -> Car_cx
      [] name = "frontal_area" -> Car_frontal_area
      [] name = "mass" -> Car_mass
      [] name = "power" -> Car_power
      [] name = "max_speed" -> Car_max_speed.num \div Car_max_speed.den
      [] name = "battery_pack_efficiency" -> Car_battery_pack_efficiency
      [] name = "controller_efficiency" -> Car_controller_efficiency
      [] name = "motor_efficiency" -> Car_motor_efficiency
      [] name = "gearbox_efficiency" -> Car_gearbox_efficiency

\* attribute lookup that never looks into the instance dict
Car_getattr_class(self, name) == Car_class(name)

\* self.name: the instance dict first, then the class
Car_getattr(self, name) ==
    IF name \in DOMAIN self THEN self[name] ELSE Car_class(name)

\* drag area: a property of the instance in track_physics, a class attribute
\* computed once from the class's cx and frontal_area in the standalone
cda(self) ==
    IF variant = "track_physics"
    THEN Ok(MulDiv(Car_getattr(self, "cx"), Car_getattr(self, "frontal_area"), Unit))
    ELSE Ok(Car_cda)

weight(self) == Ok(MulDiv(Car_getattr(self, "mass"), Earth_g, 10))

electrical_efficiency(self) ==
    Ok(MulDiv(MulDiv(Car_getattr(self, "battery_pack_efficiency"),
                     Car_getattr(self, "controller_efficiency"), Unit),
              Car_getattr(self, "motor_efficiency"), Unit))

mechanical_efficiency(self) == Ok(Car_getattr(self, "gearbox_efficiency"))

efficiency(self) ==
    Ok(MulDiv(electrical_efficiency(self).val, mechanical_efficiency(self).val, Unit))

\* the values a form or a properties dict gives an attribute: the float of
\* any text, so also zero, negative numbers and efficiencies above 100 %
Car_values(name) ==
    CASE name = "cx" -> {500000}
      [] name = "frontal_area" -> {0, 2500000}
      [] name = "mass" -> {0 - 100, 1200}
      [] name = "power" -> {0}
      [] name = "max_speed" -> {0}
      [] OTHER -> {0, 800000, 1500000}

CarInit ==
    /\ variant \in {"track_physics", "gpx2energy"}
    /\ pc = "car"
    /\ files = 0
    /\ trkpts = <<>>
    /\ nfree = 0
    /\ cur = 1
    /\ points = <<>>
    /\ ids = <<>>
    /\ point_vars = <<>>
    /\ track_vars = <<>>
    /\ printed = <<>>
    /\ raised = ""
    /\ commute_printed = FALSE
    /\ form = <<>>
    /\ car = <<>>
    /\ car_vars = <<>>
    /\ memo = <<>>
    /\ calls = <<>>
    /\ accesses = <<>>
    /\ tracks = <<>>
    /\ commute_vars = <<>>

\* the form, or the properties dict, gets one more entry
SetProperty(name, value) ==
    /\ pc = "car"
    /\ name \notin DOMAIN form
    /\ Cardinality(DOMAIN form) < MaxProperties
    /\ form' = form @@ (name :> value)
    /\ UNCHANGED <<variant, pc, car, car_vars>>
    /\ UNCHANGED <<run_vars, memo, calls, accesses, tracks, commute_vars>>

\* Car(properties): vars(self).update(properties); nothing is looked at
Construct ==
    /\ pc = "car"
    /\ car' = form
    /\ pc' = "constructed"
    /\ UNCHANGED <<variant, form, car_vars>>
    /\ UNCHANGED <<run_vars, memo, calls, accesses, tracks, commute_vars>>

\* the points of a track read the attributes of the car
CarAttributes ==
    /\ pc = "constructed"
    /\ car_vars' =
          [name \in Car_properties |-> Ok(Car_getattr(car, name))]
          @@ [cda |-> cda(car),
              weight |-> weight(car),
              electrical_efficiency |-> electrical_efficiency(car),
              mechanical_efficiency |-> mechanical_efficiency(car),
              efficiency |-> efficiency(car)]
    /\ pc' = "profile"
    /\ UNCHANGED <<variant, form, car>>
    /\ UNCHANGED <<run_vars, memo, calls, accesses, tracks, commute_vars>>

CarNext ==
    \/ \E name \in Car_properties : \E value \in Car_values(name) :
          SetProperty(name, value)
    \/ Construct
    \/ CarAttributes

CarSpec == CarInit /\ [][CarNext]_vars

----------------------------------------------------------------------------
(* utils.prop: attributes computed at the first read, in any order *)

\* the attributes of a point the body of an attribute reads through their
\* accessors before it decides anything: <<0, a>> is self.a, <<1, a>> is
\* self.previous.a
reads(self, attribute) ==
    CASE attribute = "distance" -> <<<<0, "flat_distance">>, <<0, "climb">>>>
      [] attribute = "incline_sine" -> <<<<0, "climb">>, <<0, "distance">>>>
      [] attribute = "incline_cosine" -> <<<<0, "flat_distance">>, <<0, "distance">>>>
      [] attribute = "speed" -> <<<<0, "distance">>, <<0, "period">>>>
      [] attribute = "acceleration" ->
            IF self.index > 1
            THEN <<<<0, "speed">>, <<1, "speed">>, <<0, "period">>>>
            ELSE <<>>
      [] attribute = "air_drag" -> <<<<0, "speed">>>>
      [] attribute = "rolling_resistance" -> <<<<0, "incline_cosine">>>>
      [] attribute = "incline_force" -> <<<<0, "incline_sine">>>>
      [] attribute = "acceleration_force" -> <<<<0, "acceleration">>>>
      [] attribute = "force" ->
            <<<<0, "air_drag">>, <<0, "rolling_resistance">>,
              <<0, "incline_force">>, <<0, "acceleration_force">>>>
      [] attribute = "power_at_wheels" -> <<<<0, "force">>, <<0, "speed">>>>
      [] attribute = "output_power" -> <<<<0, "power_at_wheels">>>>
      [] attribute = "regen_power" -> <<<<0, "power_at_wheels">>>>
      [] attribute = "motor_power" -> <<<<0, "power_at_wheels">>>>
      [] attribute = "energy" ->
            <<<<0, "output_power">>, <<0, "regen_power">>, <<0, "period">>>>
      [] OTHER -> <<>>

\* stands for self.previous.attribute while the body decides whether it
\* returns it
Unread == [err |-> "unread", val |-> 0]

\* a lookup that finds nothing: the body runs at every read
stored_never(obj, attribute) == FALSE

\* does vars(obj)[attribute] find a value, or raise KeyError
stored(obj, attribute) == attribute \in DOMAIN obj

\* vars(obj)[attribute] = value
store(obj, attribute, value) == (attribute :> value) @@ obj

RECURSIVE cached(_, _, _)
RECURSIVE read_all(_, _, _, _)
RECURSIVE previous_attribute(_, _, _)
RECURSIVE function(_, _, _)

\* a fallback that takes what vars(previous) holds, 0 when nothing is stored
previous_attribute_stored(st, k, attribute) ==
    IF attribute \in DOMAIN st.memo[k - 1]
    THEN [st EXCEPT !.res = st.memo[k - 1][attribute]]
    ELSE [st EXCEPT !.res = Ok(0)]

\* self.previous.attribute: the accessor of the previous point
previous_attribute(st, k, attribute) == cached(st, k - 1, attribute)

\* the reads of rs from the i-th on, for the point k; an exception ends them
read_all(st, k, rs, i) ==
    IF i > Len(rs) THEN st
    ELSE LET s == cached(st, k - rs[i][1], rs[i][2])
         IN IF s.res.err # "" THEN s ELSE read_all(s, k, rs, i + 1)

\* function(obj): the body of the attribute, run for the point k
function(st, k, attribute) ==
    LET s == read_all([st EXCEPT !.res = Ok(0)], k,
                      reads(st.memo[k], attribute), 1)
        self == s.memo[k]
        previous == IF k > 1 THEN (attribute :> Unread) @@ s.memo[k - 1] ELSE self
        value == getattr(self, previous, attribute)
    IN IF s.res.err # "" THEN s
       ELSE IF value = Unread THEN previous_attribute(s, k, attribute)
       ELSE [s EXCEPT !.res = value]

\* a prop that keeps the exception of the body and raises it again
cached_exception(st, k, attribute) ==
    IF stored(st.memo[k], attribute)
    THEN [st EXCEPT !.res = st.memo[k][attribute]]
    ELSE LET s == function([st EXCEPT !.calls[k][attribute] = @ + 1,
                                      !.runs = @ + 1], k, attribute)
         IN [s EXCEPT !.memo[k] = store(@, attribute, s.res)]

\* prop's cached(obj): vars(obj)[attribute], and at a KeyError the body is
\* run and its value stored; an exception of the body stores nothing
cached(st, k, attribute) ==
    IF stored(st.memo[k], attribute)
    THEN [st EXCEPT !.res = st.memo[k][attribute]]
    ELSE LET s == function([st EXCEPT !.calls[k][attribute] = @ + 1,
                                      !.runs = @ + 1], k, attribute)
         IN IF s.res.err # "" THEN s
            ELSE [s EXCEPT !.memo[k] = store(@, attribute, s.res)]

\* one stretch of road after the other: cruising, a GPS jump, a steep hill
MemoSteps ==
    {[dlat |-> 20, dele |-> 0, dt |-> 1000],
     [dlat |-> 30, dele |-> 8, dt |-> 1000],
     [dlat |-> 26, dele |-> 6, dt |-> 1000]}

\* the trkpts of the track that starts with FirstTrkpt and takes the steps
RECURSIVE Walk(_, _)
Walk(steps, n) ==
    IF n = 0 THEN <<FirstTrkpt>>
    ELSE LET before == Walk(steps, n - 1)
         IN Append(before, Next_trkpt(before[n], steps[n]))

\* the attributes read from outside: by the sums and windows of a track
Accessed == {"speed", "power_at_wheels", "energy"}

MemoInit ==
    /\ variant = "track_physics"
    /\ pc = "memo"
    /\ files = 1
    /\ \E steps \in [1..(MemoPoints - 1) -> MemoSteps] :
          /\ trkpts = Walk(steps, MemoPoints - 1)
          /\ points = Track_points(trkpts)
          /\ memo = points
    /\ calls = [k \in 1..MemoPoints |->
                   [attribute \in {Attributes[i] : i \in 1..Len(Attributes)} |-> 0]]
    /\ nfree = 0
    /\ cur = 1
    /\ ids = <<>>
    /\ point_vars = <<>>
    /\ track_vars = <<>>
    /\ printed = <<>>
    /\ raised = ""
    /\ commute_printed = FALSE
    /\ form = <<>>
    /\ car = <<>>
    /\ car_vars = <<>>
    /\ accesses = <<>>
    /\ tracks = <<>>
    /\ commute_vars = <<>>

\* getattr(points[k - 1], attribute) from outside
Access(k, attribute) ==
    /\ pc = "memo"
    /\ Len(accesses) < MaxAccess
    /\ \E s \in {cached([memo |-> memo, calls |-> calls, runs |-> 0,
                         res |-> Ok(0)], k, attribute)} :
          /\ memo' = s.memo
          /\ calls' = s.calls
          /\ accesses' = Append(accesses,
                                [point |-> k - 1,
                                 attribute |-> attribute,
                                 value |-> s.res,
                                 stored |-> attribute \in DOMAIN memo[k],
                                 runs |-> s.runs])
    /\ UNCHANGED <<variant, pc, form, car, car_vars, tracks, commute_vars>>
    /\ UNCHANGED run_vars

MemoNext ==
    \E k \in 1..Len(points) : \E attribute \in Accessed : Access(k, attribute)

MemoSpec == MemoInit /\ [][MemoNext]_vars

\* power_at_wheels and the attributes that read it
Checked ==
    {"power_at_wheels", "output_power", "regen_power", "motor_power", "energy"}

\* one more read from outside at the point that was read before
AccessAgain(attribute) ==
    /\ accesses # <<>>
    /\ Access(accesses[1].point + 1, attribute)

\* reads of power_at_wheels and its dependants, all at one point of the track
CheckedNext ==
    \/ \E k \in 1..Len(points) : \E attribute \in Checked :
          accesses = <<>> /\ Access(k, attribute)
    \/ \E attribute \in Checked : AccessAgain(attribute)

CheckedSpec == MemoInit /\ [][CheckedNext]_vars

----------------------------------------------------------------------------
(* class Commute: the totals over the tracks *)
(* self is the list Commute.tracks; a track is [vars, point_vars]          *)

\* a sum that leaves the last track out
RECURSIVE Commute_sum_short(_, _, _)
Commute_sum_short(self, attribute, k) ==
    IF k >= Len(self) /\ k > 1 THEN Ok(0)
    ELSE LET v == self[k].vars[attribute]
             rest == Commute_sum_short(self, attribute, k + 1)
         IN IF v.err # "" THEN v
            ELSE IF rest.err # "" THEN rest
            ELSE Ok(v.val + rest.val)

\* sum(track.attribute for track in self.tracks) from the k-th track on; the
\* first exception of a track ends the sum
RECURSIVE Commute_sum(_, _, _)
Commute_sum(self, attribute, k) ==
    IF k > Len(self) THEN Ok(0)
    ELSE LET v == self[k].vars[attribute]
             rest == Commute_sum(self, attribute, k + 1)
         IN IF v.err # "" THEN v
            ELSE IF rest.err # "" THEN rest
            ELSE Ok(v.val + rest.val)

\* is the fraction a smaller than the fraction b (denominators positive)
Less(a, b) ==
    IF a.den = b.den THEN a.num < b.num ELSE a.num * b.den < b.num * a.den

\* the peak of the first track, whatever the other tracks reach
Commute_max_first(self, attribute, k) ==
    LET v == self[k].vars[attribute]
    IN IF v.err # "" THEN v ELSE Ok([num |-> v.val.num, den |-> v.val.den])

\* max(track.attribute[0] for track in self.tracks) from the k-th track on:
\* the first of the greatest values, as a fraction
RECURSIVE Commute_max(_, _, _)
Commute_max(self, attribute, k) ==
    IF k > Len(self) THEN Raise("ValueError")
    ELSE LET v == self[k].vars[attribute]
             rest == Commute_max(self, attribute, k + 1)
             head == [num |-> v.val.num, den |-> v.val.den]
         IN IF v.err # "" THEN v
            ELSE IF k = Len(self) THEN Ok(head)
            ELSE IF rest.err # "" THEN rest
            ELSE IF Less(head, rest.val) THEN rest ELSE Ok(head)

\* a tuple as the value of a property: its elements
Tuple(elements) == [err |-> "", val |-> elements[1], tuple |-> elements]

\* energy in mWh
Commute_energy(self) == Commute_sum(self, "energy", 1)

\* distance in m
Commute_distance(self) == Commute_sum(self, "distance", 1)

\* duration in ms
Commute_duration(self) == Commute_sum(self, "duration", 1)

\* average speed in m/h; tools/gpx2energy.py ends the return statement with
\* a comma and so returns a tuple of one element
Commute_average_speed(self) ==
    LET d == Commute_distance(self)
        t == Commute_duration(self)
        q == Div(d.val, 3600 * Milli, t.val)
    IN IF d.err # "" THEN d
       ELSE IF t.err # "" THEN t
       ELSE IF q.err # "" THEN q
       ELSE IF variant = "tools" THEN Tuple(<<q.val>>) ELSE q

\* energy per km in mWh/km
Commute_energy_rate(self) ==
    LET e == Commute_energy(self)
        d == Commute_distance(self)
    IN IF e.err # "" THEN e
       ELSE IF d.err # "" THEN d
       ELSE Div(e.val, Milli, d.val)

\* the mean over all the points of all the tracks
Commute_average_motor_power_pooled(self) ==
    LET sums == [k \in 1..Len(self) |->
                    [vars |-> [total |-> Sum(self[k].point_vars, "motor_power", 0,
                                             Len(self[k].point_vars) - 1),
                               points |-> Ok(Len(self[k].point_vars))]]]
        m == Commute_sum(sums, "total", 1)
    IN IF m.err # "" THEN m
       ELSE Div(m.val, 1, Commute_sum(sums, "points", 1).val)

\* average motor power in mW
Commute_average_motor_power(self) ==
    LET m == Commute_sum(self, "average_motor_power", 1)
    IN IF m.err # "" THEN m ELSE Div(m.val, 1, Len(self))

\* every property of the commute, as reading it yields it
CommuteVars(self) ==
    [distance            |-> Commute_distance(self),
     duration            |-> Commute_duration(self),
     average_speed       |-> Commute_average_speed(self),
     top_speed           |-> Commute_max(self, "top_speed", 1),
     energy              |-> Commute_energy(self),
     energy_rate         |-> Commute_energy_rate(self),
     peak_output_power   |-> Commute_max(self, "peak_output_power", 1),
     average_motor_power |-> Commute_average_motor_power(self),
     peak_regen_power    |-> Commute_max(self, "peak_regen_power", 1),
     steepest_incline    |-> Commute_max(self, "steepest_incline", 1),
     steepest_decline    |-> Commute_max(self, "steepest_decline", 1)]

\* the roads of a commute: on the flat, and downhill
CommuteSteps ==
    {[dlat |-> 20, dele |-> 0,  dt |-> 1000],
     [dlat |-> 20, dele |-> -4, dt |-> 1000]}

\* the lengths of its tracks: too short for the default window, and two
\* that are long enough
CommuteLengths == {TopSpeedWidth + 1, DefaultWidth + 1, DefaultWidth + 2}

CommuteInit ==
    /\ variant \in {"track_physics", "gpx2energy", "tools"}
    /\ pc = "tracks"
    /\ files \in 1..MaxTracks
    /\ trkpts = <<>>
    /\ nfree = 0
    /\ cur = 1
    /\ points = <<>>
    /\ ids = <<>>
    /\ point_vars = <<>>
    /\ track_vars = <<>>
    /\ printed = <<>>
    /\ raised = ""
    /\ commute_printed = FALSE
    /\ form = <<>>
    /\ car = <<>>
    /\ car_vars = <<>>
    /\ memo = <<>>
    /\ calls = <<>>
    /\ accesses = <<>>
    /\ tracks = <<>>
    /\ commute_vars = <<>>

\* tracks.append(Track(self, file)), with every property of the track read
CommuteTrack(step, len) ==
    /\ pc = "tracks"
    /\ Len(tracks) < files
    /\ \E pts \in {Track_points(Repeat(<<FirstTrkpt, Next_trkpt(FirstTrkpt, step)>>, len))} :
       \E pv \in {AllPointVars(pts, Len(pts))} :
       \E layout \in Layouts :
          tracks' = Append(tracks,
                           [vars |-> TrackVars(pts, pv, Ids(Len(pts), layout)),
                            point_vars |-> pv])
    /\ UNCHANGED <<variant, pc, commute_vars>>
    /\ UNCHANGED <<run_vars, form, car, car_vars, memo, calls, accesses>>

\* commute.stats: every property of the commute is read
CommuteTotals ==
    /\ pc = "tracks"
    /\ Len(tracks) = files
    /\ commute_vars' = CommuteVars(tracks)
    /\ pc' = "totals"
    /\ UNCHANGED <<variant, tracks>>
    /\ UNCHANGED <<run_vars, form, car, car_vars, memo, calls, accesses>>

CommuteNext ==
    \/ \E step \in CommuteSteps : \E len \in CommuteLengths : CommuteTrack(step, len)
    \/ CommuteTotals

CommuteSpec == CommuteInit /\ [][CommuteNext]_vars

----------------------------------------------------------------------------
(* Properties *)

NPoints == Len(point_vars)

\* vars(point) of the point with Point.index = i
PV(i) == point_vars[i + 1]

\* raw < car.max_speed
BelowMaxSpeed(raw) == raw * Car_max_speed.den < Car_max_speed.num

\* distance / period of a point with a non-zero period
RawSpeed(self) == (self.distance.val * Milli) \div self.period.val

\* C1: the speed of point 0 is 0; the speed of a later point is
\* distance/period when 0 <= distance/period < car.max_speed and otherwise
\* whatever the speed of the previous point is; no speed at or above
\* car.max_speed is ever returned
C1_SpeedFallback ==
    \A i \in 0..(NPoints - 1) :
        LET self == PV(i)
        IN /\ i = 0 => self.speed = Ok(0)
           /\ (i > 0 /\ self.period.val # 0) =>
                 IF 0 <= RawSpeed(self) /\ BelowMaxSpeed(RawSpeed(self))
                 THEN self.speed = Ok(RawSpeed(self))
                 ELSE self.speed = PV(i - 1).speed
           /\ self.speed.err = "" =>
                 (0 <= self.speed.val /\ BelowMaxSpeed(self.speed.val))

\* a point too fast to be true took the speed of a moving previous point
C1_Witness ==
    \E i \in 1..(NPoints - 1) :
        /\ PV(i).period.val # 0
        /\ ~BelowMaxSpeed(RawSpeed(PV(i)))
        /\ PV(i - 1).speed.err = ""
        /\ PV(i - 1).speed.val > 0
        /\ PV(i).speed = PV(i - 1).speed

\* climb / distance, 1 when the distance is 0
RawSine(self) ==
    IF self.distance.val = 0 THEN 1 * Unit
    ELSE MulDiv(self.climb.val, Unit, self.distance.val)

\* flat_distance / distance, 0 when the distance is 0
RawCosine(self) ==
    IF self.distance.val = 0 THEN 0
    ELSE MulDiv(self.flat_distance.val, Unit, self.distance.val)

\* C2: incline_sine is climb/distance when that is strictly inside
\* (-0.25, 0.25); otherwise, and when the distance is 0, it is the
\* incline_sine of the previous point, or 0 at point 0
C2_InclineSineFallback ==
    \A i \in 0..(NPoints - 1) :
        LET self == PV(i)
        IN IF -250000 < RawSine(self) /\ RawSine(self) < 250000
           THEN self.incline_sine = Ok(RawSine(self))
           ELSE IF i = 0 THEN self.incline_sine = Ok(0)
           ELSE self.incline_sine = PV(i - 1).incline_sine

\* a point with an implausible slope took the non-zero slope before it
C2_Witness ==
    \E i \in 1..(NPoints - 1) :
        /\ PV(i).distance.val > 0
        /\ RawSine(PV(i)) >= 250000
        /\ PV(i - 1).incline_sine.val # 0
        /\ PV(i).incline_sine = PV(i - 1).incline_sine

\* C3: at a point whose distance from the previous point is 0, reading
\* incline_sine or incline_cosine raises nothing and yields the value of the
\* previous point, or 0 for the sine and 1 for the cosine at point 0
C3_NoDivisionError ==
    \A i \in 0..(NPoints - 1) :
        PV(i).distance.val = 0 =>
            /\ PV(i).incline_sine.err = ""
            /\ PV(i).incline_cosine.err = ""
            /\ PV(i).incline_sine =
                  IF i = 0 THEN Ok(0) ELSE PV(i - 1).incline_sine
            /\ PV(i).incline_cosine =
                  IF i = 0 THEN Ok(1 * Unit) ELSE PV(i - 1).incline_cosine

\* a car standing on a slope: the point took the slope of the point before
C3_Witness ==
    \E i \in 1..(NPoints - 1) :
        /\ PV(i).distance.val = 0
        /\ PV(i).incline_sine.val # 0
        /\ PV(i).incline_cosine.val < 1 * Unit
        /\ PV(i).incline_cosine = PV(i - 1).incline_cosine

\* -2 * car.power < power < 1.2 * car.power
InEnvelope(power) ==
    /\ -2 * Car_power < power
    /\ 5 * power < 6 * Car_power

\* C4: every power_at_wheels that is returned lies strictly inside
\* (-2*car.power, 1.2*car.power); when force*speed lies outside, reading
\* power_at_wheels, output_power, regen_power, motor_power or energy fails
C4_PowerEnvelope ==
    \A i \in 0..(NPoints - 1) :
        LET self == PV(i)
            power == MulDiv(self.force.val, self.speed.val, Milli)
        IN /\ self.power_at_wheels.err = "" =>
                 InEnvelope(self.power_at_wheels.val)
           /\ (self.force.err = "" /\ self.speed.err = "") =>
                 IF InEnvelope(power)
                 THEN self.power_at_wheels = Ok(power)
                 ELSE /\ self.power_at_wheels.err = "AssertionError"
                      /\ self.output_power.err = "AssertionError"
                      /\ self.regen_power.err = "AssertionError"
                      /\ self.motor_power.err = "AssertionError"
                      /\ self.energy.err = "AssertionError"

\* a point whose force*speed exceeds 1.2*car.power ended the run
C4_Witness ==
    /\ raised = "AssertionError"
    /\ \E i \in 1..(NPoints - 1) :
        /\ PV(i).force.err = ""
        /\ PV(i).speed.err = ""
        /\ ~InEnvelope(MulDiv(PV(i).force.val, PV(i).speed.val, Milli))
        /\ PV(i).power_at_wheels.err = "AssertionError"

\* the five peak properties: attribute, width, max or min, scale
Peaks ==
    [top_speed         |-> [attribute |-> "speed", width |-> TopSpeedWidth,
                            pick_max |-> TRUE, mul |-> 18, div |-> 5],
     peak_output_power |-> [attribute |-> "output_power", width |-> DefaultWidth,
                            pick_max |-> TRUE, mul |-> 1, div |-> 1],
     peak_regen_power  |-> [attribute |-> "regen_power", width |-> DefaultWidth,
                            pick_max |-> TRUE, mul |-> 1, div |-> 1],
     steepest_incline  |-> [attribute |-> "incline_sine", width |-> DefaultWidth,
                            pick_max |-> TRUE, mul |-> 100, div |-> 1],
     steepest_decline  |-> [attribute |-> "incline_sine", width |-> DefaultWidth,
                            pick_max |-> FALSE, mul |-> -100, div |-> 1]]

\* the sum of the attribute over the points s .. s+width-1
RECURSIVE WindowSum(_, _, _)
WindowSum(attribute, s, width) ==
    IF width = 0 THEN 0
    ELSE PV(s)[attribute].val + WindowSum(attribute, s + 1, width - 1)

\* window s attains the extremal mean among the windows 0 .. n-width-1
Extremal(p, s) ==
    \A t \in 0..(NPoints - p.width - 1) :
        IF p.pick_max
        THEN WindowSum(p.attribute, t, p.width) <= WindowSum(p.attribute, s, p.width)
        ELSE WindowSum(p.attribute, t, p.width) >= WindowSum(p.attribute, s, p.width)

\* C5: when several windows attain the extremal mean, each of the five
\* peaks is the one of them with the smallest start index
C5_EarliestWindow ==
    \A name \in DOMAIN Peaks :
        (points # <<>> /\ track_vars[name].err = "") =>
            LET s == track_vars[name].val.first.index
            IN \A t \in 0..(s - 1) : ~Extremal(Peaks[name], t)

\* C6: for n > width points the windows examined are those starting at
\* 0 .. n-width-1; the peak is the extremal mean of the attribute over the
\* width points s .. s+width-1 of one of them, with the points s and
\* s+width-1
C6_SlidingWindow ==
    \A name \in DOMAIN Peaks :
        (points # <<>> /\ track_vars[name].err = "") =>
            LET p == Peaks[name]
                peak == track_vars[name].val
                s == peak.first.index
            IN /\ NPoints > p.width
               /\ s \in 0..(NPoints - p.width - 1)
               /\ peak.first = points[s + 1]
               /\ peak.last = points[s + p.width]
               /\ peak.num = WindowSum(p.attribute, s, p.width) * p.mul
               /\ peak.den = p.width * p.div
               /\ Extremal(p, s)

\* the top speed was found in a window that is not the first one and that
\* beats another window
C6_Witness ==
    /\ points # <<>>
    /\ track_vars.top_speed.err = ""
    /\ track_vars.top_speed.val.first.index > 0
    /\ \E t \in 0..(NPoints - TopSpeedWidth - 1) :
          WindowSum("speed", t, TopSpeedWidth) * 18 < track_vars.top_speed.val.num

\* the exception reading the attribute raises first among the points
\* 0 .. n-2, "" when none does
FirstError(attribute) ==
    IF \E k \in 0..(NPoints - 2) : PV(k)[attribute].err # ""
    THEN LET k == CHOOSE j \in 0..(NPoints - 2) :
                     /\ PV(j)[attribute].err # ""
                     /\ \A l \in 0..(j - 1) : PV(l)[attribute].err = ""
         IN PV(k)[attribute].err
    ELSE ""

\* C7 as stated: top_speed fails exactly when n <= 15, the other four
\* peaks exactly when n <= 20
C7_FailsExactly ==
    \A name \in DOMAIN Peaks :
        points # <<>> =>
            (track_vars[name].err # "" <=> NPoints <= Peaks[name].width)

\* C7 amended: a peak search over n <= width points fails with ValueError;
\* over n > width points it returns a peak unless reading the attribute of
\* one of the points 0 .. n-2 raises, and then it fails with that exception
C7_InsufficientData ==
    \A name \in DOMAIN Peaks :
        points # <<>> =>
            /\ NPoints <= Peaks[name].width => track_vars[name].err = "ValueError"
            /\ NPoints > Peaks[name].width =>
                  track_vars[name].err = FirstError(Peaks[name].attribute)

\* a track of exactly 20 points: a top speed, but no other peak
C7_Witness ==
    /\ NPoints = DefaultWidth
    /\ track_vars.top_speed.err = ""
    /\ track_vars.peak_output_power.err = "ValueError"
    /\ track_vars.steepest_decline.err = "ValueError"

RawAcceleration(i) ==
    MulDiv(PV(i).speed.val - PV(i - 1).speed.val, Milli, PV(i).period.val)

\* C9: for i >= 2 a raw acceleration strictly between -g/2 and g/2 is the
\* acceleration of the point
C9_AccelerationRule ==
    \A i \in 2..(NPoints - 1) :
        (/\ PV(i).acceleration.err = ""
         /\ -Earth_g_half < RawAcceleration(i)
         /\ RawAcceleration(i) < Earth_g_half) =>
            PV(i).acceleration.val = RawAcceleration(i)

\* C10: regen_power is -power_at_wheels * car.efficiency when
\* power_at_wheels < 0 and 0 otherwise, in track_physics and in the
\* standalone gpx2energy
C10_RegenPower ==
    \A i \in 0..(NPoints - 1) :
        PV(i).power_at_wheels.err = "" =>
            IF PV(i).power_at_wheels.val < 0
            THEN /\ PV(i).regen_power.val =
                       MulDiv(-PV(i).power_at_wheels.val, Car_efficiency, Unit)
                 /\ PV(i).regen_power.val <= -PV(i).power_at_wheels.val
            ELSE PV(i).regen_power.val = 0

\* C11: at every point where power_at_wheels is 0, output_power, regen_power
\* and energy are 0; a track whose power_at_wheels is 0 at every point has
\* track energy 0
C11_ZeroPower ==
    /\ \A i \in 0..(NPoints - 1) :
          PV(i).power_at_wheels = Ok(0) =>
              /\ PV(i).output_power = Ok(0)
              /\ PV(i).regen_power = Ok(0)
              /\ PV(i).energy = Ok(0)
    /\ (points # <<>> /\ \A i \in 0..(NPoints - 1) : PV(i).power_at_wheels = Ok(0))
          => track_vars.energy = Ok(0)

\* a car that never moves under its own power on a track long enough for a
\* top speed: no energy at any point, although the rolling resistance pulls
C11_Witness ==
    /\ NPoints > TopSpeedWidth
    /\ \A i \in 0..(NPoints - 1) :
          /\ PV(i).power_at_wheels = Ok(0)
          /\ PV(i).force.val > 0
          /\ PV(i).energy = Ok(0)
    /\ track_vars.energy = Ok(0)

\* C12: the period of point 0 is 1 s; the period of a later point is the
\* time elapsed between the timestamp of the previous point and its own,
\* sub-second part included
C12_Period ==
    \A i \in 0..(NPoints - 1) :
        PV(i).period =
            IF i = 0 THEN Ok(1 * Milli) ELSE Ok(PV(i).time - PV(i - 1).time)

\* the base parameters of the constructed car, as the attributes read them
Base(name) == car_vars[name].val

\* is the profile given to the constructor a valid one
ValidProfile ==
    /\ \A name \in DOMAIN form \cap {"battery_pack_efficiency",
                                     "controller_efficiency",
                                     "motor_efficiency",
                                     "gearbox_efficiency"} :
          0 < form[name] /\ form[name] <= 1 * Unit
    /\ \A name \in DOMAIN form \cap {"mass", "frontal_area", "power", "max_speed"} :
          form[name] > 0

C14_Derived ==
    pc = "profile" =>
        /\ car_vars["cda"] = Ok(MulDiv(Base("cx"), Base("frontal_area"), Unit))
        /\ car_vars["weight"] = Ok(MulDiv(Base("mass"), Earth_g, 10))
        /\ car_vars["electrical_efficiency"] =
              Ok(MulDiv(MulDiv(Base("battery_pack_efficiency"),
                               Base("controller_efficiency"), Unit),
                        Base("motor_efficiency"), Unit))
        /\ car_vars["mechanical_efficiency"] = Ok(Base("gearbox_efficiency"))
        /\ car_vars["efficiency"] =
              Ok(MulDiv(car_vars["electrical_efficiency"].val,
                        car_vars["mechanical_efficiency"].val, Unit))

\* the point whose attribute the i-th read from outside asked for
Asked(i) == memo[accesses[i].point + 1]

\* C15: the body of every attribute of every point is run at most once
C15_AtMostOnce ==
    \A k \in DOMAIN calls : \A attribute \in DOMAIN calls[k] :
        calls[k][attribute] <= 1

\* C15, amended: a body that returned a value has run exactly once; a read
\* of a stored value runs no body and returns the stored value; a value once
\* returned is returned by every later read and is the value still stored;
\* a body that raised stored nothing and runs again at the next read
C15_Memoized ==
    /\ \A k \in DOMAIN calls : \A attribute \in DOMAIN calls[k] :
          attribute \in DOMAIN memo[k] => calls[k][attribute] = 1
    /\ \A i \in DOMAIN accesses :
          /\ accesses[i].stored =>
                accesses[i].runs = 0 /\ accesses[i].value.err = ""
          /\ accesses[i].value.err = "" =>
                /\ accesses[i].attribute \in DOMAIN Asked(i)
                /\ Asked(i)[accesses[i].attribute] = accesses[i].value
          /\ accesses[i].value.err # "" =>
                /\ accesses[i].attribute \notin DOMAIN Asked(i)
                /\ accesses[i].runs >= 1
    /\ \A i, j \in DOMAIN accesses :
          (/\ i < j
           /\ accesses[i].point = accesses[j].point
           /\ accesses[i].attribute = accesses[j].attribute
           /\ accesses[i].value.err = "")
          => /\ accesses[j].value = accesses[i].value
             /\ accesses[j].stored
             /\ accesses[j].runs = 0

C15_Witness ==
    /\ Len(accesses) = 2
    /\ accesses[1].point = accesses[2].point
    /\ accesses[1].attribute = "energy"
    /\ accesses[2].attribute = "energy"
    /\ accesses[1].value.err = ""
    /\ accesses[1].runs > 1
    /\ accesses[2].runs = 0
    /\ accesses[2].value = accesses[1].value

NTracks == Len(tracks)

TV(k, name) ==
    CASE name = "points" -> Ok(Len(tracks[k].point_vars))
      [] name = "motor_power_sum" ->
            Sum(tracks[k].point_vars, "motor_power", 0, Len(tracks[k].point_vars) - 1)
      [] OTHER -> tracks[k].vars[name]

\* the values of a property over the tracks k .. NTracks, added from the last
RECURSIVE Total(_, _)
Total(name, k) ==
    IF k = 0 THEN 0 ELSE Total(name, k - 1) + TV(k, name).val

\* every track yields the property
AllOk(name) == \A k \in 1..NTracks : TV(k, name).err = ""

\* the exception of the first track that does not yield the property
FirstFailure(name) ==
    TV(CHOOSE k \in 1..NTracks :
           /\ TV(k, name).err # ""
           /\ \A l \in 1..(k - 1) : TV(l, name).err = "", name)

\* C17: distance, energy and duration of a commute are the sums of the
\* distances, energies and durations of its tracks, for any number of tracks
C17_CommuteSums ==
    pc = "totals" =>
        \A name \in {"distance", "energy", "duration"} :
            commute_vars[name] =
                IF AllOk(name) THEN Ok(Total(name, NTracks)) ELSE FirstFailure(name)

C17_Witness ==
    /\ pc = "totals"
    /\ NTracks = MaxTracks
    /\ \A name \in {"distance", "energy", "duration"} :
          /\ AllOk(name)
          /\ commute_vars[name].val = Total(name, NTracks)
          /\ commute_vars[name].val > TV(1, name).val
    /\ TV(1, "energy") # TV(NTracks, "energy")

\* C18: the average speed of a commute is the scalar distance/(duration/60)
\* and its energy rate the scalar energy/distance, both from the totals of
\* the commute, in track_physics and in tools/gpx2energy.py
C18_CommuteRatios ==
    pc = "totals" =>
        /\ commute_vars.average_speed =
              Div(commute_vars.distance.val, 3600 * Milli, commute_vars.duration.val)
        /\ AllOk("energy") =>
              commute_vars.energy_rate =
                  Div(commute_vars.energy.val, Milli, commute_vars.distance.val)

\* the five peaks of a commute
CommutePeaks ==
    {"top_speed", "peak_output_power", "peak_regen_power", "steepest_incline",
     "steepest_decline"}

\* the scalar of the peak of the k-th track equals the fraction v
Attains(k, name, v) ==
    ~Less(TV(k, name).val, v) /\ ~Less(v, TV(k, name).val)

\* C19: each peak of a commute is the greatest of the scalars of that peak
\* over its tracks; the steepest decline of a track is the negated least
\* window mean of incline_sine, in percent
C19_CommutePeaks ==
    pc = "totals" =>
        /\ \A name \in CommutePeaks :
              IF AllOk(name)
              THEN /\ commute_vars[name].err = ""
                   /\ \A k \in 1..NTracks : ~Less(commute_vars[name].val, TV(k, name).val)
                   /\ \E k \in 1..NTracks : Attains(k, name, commute_vars[name].val)
              ELSE commute_vars[name].err = FirstFailure(name).err
        /\ \A k \in 1..NTracks :
              TV(k, "steepest_decline").err = "" =>
                  LET pv == tracks[k].point_vars
                      last == Len(pv) - DefaultWidth - 1
                      mean(t) == [num |-> -100 * Sum(pv, "incline_sine", t,
                                                     t + DefaultWidth - 1).val,
                                  den |-> DefaultWidth]
                  IN /\ TV(k, "steepest_decline").val.den = DefaultWidth
                     /\ \A t \in 0..last : ~Less(TV(k, "steepest_decline").val, mean(t))
                     /\ \E t \in 0..last : Attains(k, "steepest_decline", mean(t))

\* two tracks with different peaks, the greater one second
C19_Witness ==
    /\ pc = "totals"
    /\ NTracks >= 2
    /\ \A name \in CommutePeaks :
          /\ AllOk(name)
          /\ Attains(NTracks, name, commute_vars[name].val)
    /\ Less(TV(1, "steepest_decline").val, TV(NTracks, "steepest_decline").val)
    /\ Less(TV(1, "peak_regen_power").val, TV(NTracks, "peak_regen_power").val)
    /\ commute_vars["steepest_decline"].val.num > 0

\* the mean of motor_power over all the points of all the tracks
PooledMean ==
    Div(Total("motor_power_sum", NTracks), 1, Total("points", NTracks))

C22_SpeedTotal ==
    \A i \in 0..(NPoints - 1) :
        /\ PV(i).speed.err = ""
        /\ 0 <= PV(i).speed.val
        /\ BelowMaxSpeed(PV(i).speed.val)

\* is distance/period of the point i defined and in [0, car.max_speed)
Plausible(i) ==
    /\ PV(i).period.val # 0
    /\ 0 <= RawSpeed(PV(i))
    /\ BelowMaxSpeed(RawSpeed(PV(i)))

\* the greatest element of a non-empty set of indices
Greatest(S) == CHOOSE j \in S : \A l \in S : l <= j

\* C23: the speed of point i is distance/period of the greatest j <= i at
\* which that quotient lies in [0, car.max_speed), and 0 when there is none
C23_LastValidSpeed ==
    \A i \in 0..(NPoints - 1) :
        PV(i).speed.err = "" =>
            LET valid == {j \in 0..i : Plausible(j)}
            IN PV(i).speed.val =
                  IF valid = {} THEN 0 ELSE RawSpeed(PV(Greatest(valid)))

\* two implausible points in a row hold the speed of the moving point before
C23_Witness ==
    \E i \in 3..(NPoints - 1) :
        /\ PV(i).speed.err = ""
        /\ PV(i).period.val # 0
        /\ PV(i - 1).period.val # 0
        /\ ~Plausible(i)
        /\ ~Plausible(i - 1)
        /\ Plausible(i - 2)
        /\ PV(i).speed.val = RawSpeed(PV(i - 2))
        /\ PV(i).speed.val > 0

\* is the scalar of a steepest incline or decline strictly inside (-25, 25) %
Below25(peak) ==
    /\ -25 * Unit * peak.den < peak.num
    /\ peak.num < 25 * Unit * peak.den

\* C24: at every point incline_sine lies strictly inside (-0.25, 0.25) and
\* incline_cosine in (0.75, 1]; the steepest incline and the steepest decline
\* of a track lie strictly inside (-25, 25) percent
C24_InclineBounds ==
    /\ \A i \in 0..(NPoints - 1) :
          /\ PV(i).incline_sine.err = ""
          /\ -250000 < PV(i).incline_sine.val
          /\ PV(i).incline_sine.val < 250000
          /\ PV(i).incline_cosine.err = ""
          /\ 750000 < PV(i).incline_cosine.val
          /\ PV(i).incline_cosine.val <= 1 * Unit
    /\ \A name \in {"steepest_incline", "steepest_decline"} :
          (points # <<>> /\ track_vars[name].err = "") => Below25(track_vars[name].val)

\* a track that climbs at more than 20 % and has a sample whose climb over
\* distance is 25 % or more
C24_Witness ==
    /\ points # <<>>
    /\ track_vars["steepest_incline"].err = ""
    /\ track_vars["steepest_incline"].val.num
          > 20 * Unit * track_vars["steepest_incline"].val.den
    /\ \E i \in 1..(NPoints - 1) :
          /\ PV(i).distance.val > 0
          /\ RawSine(PV(i)) >= 250000
          /\ PV(i).incline_sine.val > 200000

\* C25: on a track of n > width points no window reaches the last point:
\* the window of every peak starts at n-width-1 at the latest and ends at
\* n-2 at the latest, and the peak is found from the points 0 .. n-2 alone
C25_LastPointUnused ==
    \A name \in DOMAIN Peaks :
        LET p == Peaks[name]
        IN (points # <<>> /\ NPoints > p.width) =>
              /\ track_vars[name].err = "" =>
                    /\ track_vars[name].val.first.index <= NPoints - p.width - 1
                    /\ track_vars[name].val.last.index <= NPoints - 2
              /\ (\A i \in 0..(NPoints - 2) : PV(i)[p.attribute].err = "") =>
                    /\ track_vars[name].err = ""
                    /\ \E s \in 0..(NPoints - p.width - 1) :
                          /\ Extremal(p, s)
                          /\ track_vars[name].val.num
                                = WindowSum(p.attribute, s, p.width) * p.mul

\* the window that ends at the last point would have beaten the top speed
C25_Witness ==
    /\ points # <<>>
    /\ NPoints > TopSpeedWidth
    /\ track_vars.top_speed.err = ""
    /\ PV(NPoints - 1).speed.err = ""
    /\ WindowSum("speed", NPoints - TopSpeedWidth, TopSpeedWidth) * 18
          > track_vars.top_speed.val.num

\* the periods of the points from..NPoints-1, added up
RECURSIVE Periods(_)
Periods(from) ==
    IF from > NPoints - 1 THEN 0 ELSE PV(from).period.val + Periods(from + 1)

\* C26: on a track of at least two points the periods of the points
\* 1 .. n-1 add up to the time between the first and the last timestamp,
\* which is 60 times the duration of the track
C26_Telescope ==
    NPoints >= 2 =>
        /\ Periods(1) = points[NPoints].time - points[1].time
        /\ Periods(1) = track_vars.duration.val

\* C27: at every point output_power, regen_power and motor_power are not
\* negative, output_power and regen_power are never both non-zero,
\* output_power is positive only where power_at_wheels is positive and
\* regen_power only where power_at_wheels is negative
C27_PowerSigns ==
    \A i \in 0..(NPoints - 1) :
        PV(i).power_at_wheels.err = "" =>
            /\ PV(i).output_power.err = ""
            /\ PV(i).regen_power.err = ""
            /\ PV(i).motor_power.err = ""
            /\ PV(i).output_power.val >= 0
            /\ PV(i).regen_power.val >= 0
            /\ PV(i).motor_power.val >= 0
            /\ PV(i).output_power.val = 0 \/ PV(i).regen_power.val = 0
            /\ PV(i).output_power.val > 0 => PV(i).power_at_wheels.val > 0
            /\ PV(i).regen_power.val > 0 => PV(i).power_at_wheels.val < 0

\* a track with a point that draws power and a point that regenerates
C27_Witness ==
    /\ \E i \in 0..(NPoints - 1) :
          /\ PV(i).power_at_wheels.err = ""
          /\ PV(i).power_at_wheels.val > 0
          /\ PV(i).output_power.val > 0
          /\ PV(i).motor_power.val > 0
          /\ PV(i).regen_power.val = 0
    /\ \E i \in 0..(NPoints - 1) :
          /\ PV(i).power_at_wheels.err = ""
          /\ PV(i).power_at_wheels.val < 0
          /\ PV(i).regen_power.val > 0
          /\ PV(i).motor_power.val > 0
          /\ PV(i).output_power.val = 0

\* distance, duration and energy of the track are returned
TotalsReturned ==
    /\ track_vars.distance.err = ""
    /\ track_vars.duration.err = ""
    /\ track_vars.energy.err = ""

\* C28: on a track whose first and last timestamp are equal average_speed
\* fails with a division by zero, on a track whose distance is 0 energy_rate
\* fails with a division by zero, and distance, duration and energy of such
\* a track are returned all the same
C28_UnguardedQuotients ==
    points # <<>> =>
        /\ points[NPoints].time = points[1].time =>
              /\ track_vars.average_speed.err = "ZeroDivisionError"
              /\ TotalsReturned
        /\ (track_vars.distance.err = "" /\ track_vars.distance.val = 0) =>
              /\ track_vars.energy_rate.err = "ZeroDivisionError"
              /\ TotalsReturned

\* the attributes power_at_wheels reads, directly or through force
Upstream == {"speed", "force", "incline_sine", "incline_cosine"}

\* C29: when the sanity check of power_at_wheels fails at a point, nothing
\* is stored there for power_at_wheels, output_power, regen_power,
\* motor_power and energy, the upstream values stay stored as they were
\* computed, and every read of one of the five at that point fails again
\* with the AssertionError after running the body of power_at_wheels anew
C29_FailureNotStored ==
    \A pv \in {AllPointVars(points, Len(points))} :
    \A i \in DOMAIN accesses :
        LET k == accesses[i].point + 1
            here == {j \in DOMAIN accesses :
                        accesses[j].point = accesses[i].point
                        /\ accesses[j].attribute \in Checked}
        IN (accesses[i].attribute \in Checked
            /\ accesses[i].value.err = "AssertionError") =>
              /\ Checked \cap DOMAIN memo[k] = {}
              /\ \A attribute \in Upstream :
                    /\ attribute \in DOMAIN memo[k]
                    /\ memo[k][attribute] = pv[k][attribute]
                    /\ calls[k][attribute] = 1
              /\ \A j \in here :
                    /\ accesses[j].value = Raise("AssertionError")
                    /\ ~accesses[j].stored
                    /\ accesses[j].runs >= 1
              /\ calls[k]["power_at_wheels"] = Cardinality(here)

\* the check failed, and a read of another of the five failed after it
C29_Witness ==
    /\ Len(accesses) = 2
    /\ accesses[1].point = accesses[2].point
    /\ accesses[1].attribute = "power_at_wheels"
    /\ accesses[1].value.err = "AssertionError"
    /\ accesses[1].runs > 5
    /\ accesses[2].attribute = "motor_power"
    /\ accesses[2].value.err = "AssertionError"
    /\ accesses[2].runs = 2
    /\ calls[accesses[1].point + 1]["power_at_wheels"] = 2
    /\ "force" \in DOMAIN memo[accesses[1].point + 1]

\* raw < 100 km/h, which is 250/9 m/s
Below100kmh(raw) == raw * 9 < 250 * Milli

\* the points up to i whose distance/period lies in [0, 100 km/h)
Within100kmh(i) ==
    {j \in 1..i : /\ PV(j).period.val # 0
                  /\ 0 <= RawSpeed(PV(j))
                  /\ Below100kmh(RawSpeed(PV(j)))}

\* C30: calculator/gpx2energy.py and track_physics.py have the same
\* car.max_speed, 100 km/h in m/s, so both resolve the speed of a point to
\* distance/period of the last point up to it at which that quotient lies
\* in [0, 100 km/h), and to 0 when there is none
C30_VariantsAgree ==
    \A i \in 0..(NPoints - 1) :
        PV(i).speed.err = "" =>
            PV(i).speed.val =
                IF Within100kmh(i) = {} THEN 0
                ELSE RawSpeed(PV(Greatest(Within100kmh(i))))

====
